---- MODULE Spec2Model ----
(***************************************************************************)
(* Model of the WhatsApp webhook relay of src/main.py: the verification    *)
(* handshake (GET /webhook) and the request-to-reply pipeline              *)
(* (POST /webhook, handle_webhook) with the services it drives:            *)
(* get_tenant_id_from_message, DatabaseService, BrowStudioBot and          *)
(* WhatsAppService.                                                        *)
(*                                                                         *)
(* Every handler invocation is one task.  A task is suspended at each      *)
(* awaited call, so one action models the code from one awaited call up    *)
(* to the next one; tasks interleave freely between actions, as nothing in *)
(* the source serialises them (only a handler that has reached its return  *)
(* statement returns before anything else happens).                        *)
(*                                                                         *)
(* Encodings.  A JSON object / Python dict is a function whose domain is   *)
(* the set of keys that are present, read with Get (dict.get).  A JSON     *)
(* array is a sequence.  A text is a sequence of characters (a fixed       *)
(* phrase of the source is written as one token).  Python's None is the    *)
(* value None; a numeric column holding NULL is listed in null_columns, a   *)
(* text local of the handler holding None is listed in none_locals.        *)
(***************************************************************************)
EXTENDS Integers, Sequences, FiniteSets, TLC

VARIABLES
    config,           \* Config: ENVIRONMENT, TEST_TENANT_ID, VERIFY_TOKEN
    tenants,          \* table "tenants": id -> row
    message_history,  \* table "message_history": sequence of inserted rows
    task,             \* per task: the handler's position, locals and response
    started           \* number of POST /webhook requests received so far

vars == <<config, tenants, message_history, task, started>>

----------------------------------------------------------------------------
(* Bounds of the model *)

\* number of handler tasks that can be in flight at once
MaxTasks == 2
\* number of POST /webhook requests received in one behaviour
MaxRequests == 3
\* message_limit of the tenants of the model
TenantLimit == 2

Tasks == 1..MaxTasks

----------------------------------------------------------------------------
(* Values *)

None == "None"

Whitespace == {" ", "\n", "\t"}

\* dict.get(key, default)
Get(d, k, default) == IF k \in DOMAIN d THEN d[k] ELSE default

\* the dict {} used as a default of dict.get
EmptyDict == [k \in {} |-> None]

\* str.strip()
RECURSIVE LStrip(_)
LStrip(s) == IF s # <<>> /\ Head(s) \in Whitespace THEN LStrip(Tail(s)) ELSE s

RECURSIVE RStrip(_)
RStrip(s) ==
    IF s # <<>> /\ s[Len(s)] \in Whitespace
    THEN RStrip(SubSeq(s, 1, Len(s) - 1))
    ELSE s

Strip(s) == RStrip(LStrip(s))

\* s[:n]
Truncate(s, n) == IF Len(s) <= n THEN s ELSE SubSeq(s, 1, n)

\* the stored length limit of user_message and bot_response
MaxStoredLen == 1000

\* the fixed texts of the source
ExpectedObject == "whatsapp_business_account"
UnknownTenantText == <<"Desculpe, nao consegui identificar sua empresa. Por favor, verifique o numero.">>
LimitReachedText == <<"Ola! Nosso atendimento automatico atingiu o limite diario.", "\n", "Um de nossos atendentes ira responder em breve. Obrigado!">>
ApologyPrefix == <<"Desculpe, estou com um problema tecnico no momento.", "\n", "Por favor, entre em contato diretamente: ">>

----------------------------------------------------------------------------
(* Inbound payloads *)

Message(type, from, text) ==
    [id |-> "wamid", from |-> from, type |-> type, text |-> [body |-> text]]

ImageMessage(from) == [id |-> "wamid", from |-> from, type |-> "image"]

\* a value whose metadata carries the routing key phone_number_id
ValueAt(phone_number_id, messages) ==
    [messaging_product |-> "whatsapp",
     metadata |-> [display_phone_number |-> "5511", phone_number_id |-> phone_number_id],
     messages |-> messages]

Value(messages) == ValueAt("pn1", messages)

\* a value without metadata
BareValue(messages) == [messaging_product |-> "whatsapp", messages |-> messages]

StatusValue ==
    [messaging_product |-> "whatsapp",
     metadata |-> [display_phone_number |-> "5511", phone_number_id |-> "pn1"]]

Envelope(object, value) ==
    [object |-> object, entry |-> << [id |-> "waba", changes |-> << [field |-> "messages", value |-> value] >>] >>]

Decoded(data) == [decodes |-> TRUE, is_object |-> TRUE, data |-> data]

Sender == "5511999999999"
UserText == <<" ", "o", "i", "\n">>
BlankText == <<" ", "\t">>

TextPayload == Decoded(Envelope(ExpectedObject, Value(<<Message("text", Sender, UserText)>>)))

\* the request bodies the platform (or anyone else) posts
Payloads ==
    { [decodes |-> FALSE, is_object |-> FALSE, data |-> EmptyDict],
      [decodes |-> TRUE, is_object |-> FALSE, data |-> EmptyDict],
      Decoded(EmptyDict),
      Decoded(Envelope("page", Value(<<Message("text", Sender, UserText)>>))),
      Decoded([object |-> ExpectedObject]),
      Decoded([object |-> ExpectedObject, entry |-> << [id |-> "waba"] >>]),
      Decoded(Envelope(ExpectedObject, StatusValue)),
      Decoded(Envelope(ExpectedObject, Value(<<>>))),
      Decoded(Envelope(ExpectedObject, Value(<<ImageMessage(Sender), Message("text", Sender, UserText)>>))),
      Decoded(Envelope(ExpectedObject, Value(<<Message("text", Sender, BlankText)>>))),
      Decoded(Envelope(ExpectedObject, Value(<<Message("text", "", UserText)>>))),
      TextPayload,
      Decoded(Envelope(ExpectedObject, ValueAt("pn2", <<Message("text", Sender, UserText)>>))),
      Decoded(Envelope(ExpectedObject, BareValue(<<Message("text", Sender, UserText)>>))),
      Decoded(Envelope(ExpectedObject, Value(<<Message("text", Sender, UserText), Message("text", "5522", <<"x">>)>>))) }

----------------------------------------------------------------------------
(* Configuration and data store *)

VerifyToken == "secret"

\* Config as loaded from the environment; Config.validate() has passed
Configs ==
    { [ENVIRONMENT |-> "production", TEST_TENANT_ID |-> None, VERIFY_TOKEN |-> VerifyToken],
      [ENVIRONMENT |-> "development", TEST_TENANT_ID |-> None, VERIFY_TOKEN |-> VerifyToken],
      [ENVIRONMENT |-> "development", TEST_TENANT_ID |-> "t1", VERIFY_TOKEN |-> VerifyToken],
      [ENVIRONMENT |-> "development", TEST_TENANT_ID |-> "t2", VERIFY_TOKEN |-> VerifyToken],
      [ENVIRONMENT |-> "development", TEST_TENANT_ID |-> "t3", VERIFY_TOKEN |-> VerifyToken],
      [ENVIRONMENT |-> "development", TEST_TENANT_ID |-> "t9", VERIFY_TOKEN |-> VerifyToken] }

\* ids of the rows of table "tenants" ("t9" is an id with no row)
TenantIds == {"t1", "t2", "t3"}

\* a row of "tenants" joined with its services; null_columns are the
\* columns whose stored value is NULL
TenantRow(id, count, limit, nulls) ==
    [id |-> id, business_name |-> "studio", business_phone |-> "5511",
     message_count |-> count, message_limit |-> limit, last_message_at |-> "never",
     services |-> << [service_name |-> "design", price |-> "50", duration |-> "30min"] >>,
     null_columns |-> nulls]

\* the table at start: t1 has used nothing of its quota, t2 has no limit
\* configured (NULL), t3 is already over its limit
InitialTenants ==
    [id \in TenantIds |->
        CASE id = "t1" -> TenantRow(id, 0, TenantLimit, {})
          [] id = "t2" -> TenantRow(id, 0, 0, {"message_limit"})
          [] OTHER -> TenantRow(id, TenantLimit + 1, TenantLimit, {})]

NoRow == [id |-> None, null_columns |-> {}]

\* datetime.utcnow(): the instant of a write.  One instant, later than the
\* initial last_message_at, stands for all of them.
utcnow == "now"

\* table "phone_mappings": routing key -> tenant id (never read by the code)
phone_mappings == [k \in {"pn1", "pn2"} |-> IF k = "pn1" THEN "t1" ELSE "t2"]

----------------------------------------------------------------------------
(* The handler task *)

NoBody == [decodes |-> FALSE, is_object |-> FALSE, data |-> EmptyDict]

\* the query parameters of GET /webhook (None: parameter absent)
Query(mode, token, challenge) ==
    [mode |-> mode, verify_token |-> token, challenge |-> challenge]

NoQuery == Query(None, None, None)

IdleTask ==
    [pc |-> "idle", method |-> None, body |-> NoBody, from_number |-> None, message_text |-> <<>>,
     tenant_id |-> None, tenant_data |-> NoRow, message_count |-> 0,
     message_limit |-> 0, reply_text |-> <<>>, success |-> FALSE,
     query |-> NoQuery, status |-> 0, content |-> None, calls |-> <<>>,
     none_locals |-> {}]

\* one call of a downstream service, as recorded for the request
\* (arg: the text passed or returned, n: the count passed, ok: it succeeded)
Call(op, arg, n, ok) == [op |-> op, arg |-> arg, n |-> n, ok |-> ok]

\* return Response(status_code=200)
Ack(t) == [t EXCEPT !.pc = "done", !.status = 200]

\* (mutation) the exception escapes to the global handler, which answers 500
OnExceptionPropagates(t) == [t EXCEPT !.pc = "done", !.status = 500]

\* an exception raised in the handler body: caught by the handler's
\* except clause, logged, and the final return answers 200
OnException(t) == [t EXCEPT !.pc = "done", !.status = 200]

\* (mutation) only a missing object tag is rejected
WrongObjectOnlyMissing(data) == Get(data, "object", None) = None

\* body.get("object") != "whatsapp_business_account"
WrongObject(data) == Get(data, "object", None) # ExpectedObject

\* (mutation) an event without metadata carries no messages
MessagesWithMetadata(value) ==
    IF "metadata" \in DOMAIN value THEN Get(value, "messages", <<>>) ELSE <<>>

\* messages = value.get("messages", [])
Messages(value) == Get(value, "messages", <<>>)

\* (mutation) the first text message of the batch is taken
FirstTextMessage(messages) ==
    LET texts == {i \in 1..Len(messages) : Get(messages[i], "type", None) = "text"}
    IN  IF texts = {} THEN messages[1]
        ELSE messages[CHOOSE i \in texts : \A j \in texts : i <= j]

\* message = messages[0]
FirstMessage(messages) == messages[1]

\* the synchronous part of handle_webhook from the decoded body to the
\* tenant resolution: validation, extraction and filtering
ParseExtractFilter(b) ==
    IF ~b.decodes \/ ~b.is_object THEN [outcome |-> "raise"]
    ELSE IF WrongObject(b.data) THEN [outcome |-> "ignore"]
    ELSE LET entry == Get(b.data, "entry", <<>>) IN
    IF entry = <<>> THEN [outcome |-> "ignore"]
    ELSE LET changes == Get(entry[1], "changes", <<>>) IN
    IF changes = <<>> THEN [outcome |-> "ignore"]
    ELSE LET value == Get(changes[1], "value", EmptyDict)
             messages == Messages(value) IN
    IF messages = <<>> THEN [outcome |-> "ignore"]
    ELSE LET message == FirstMessage(messages)
             from_number == Get(message, "from", None)
             message_type == Get(message, "type", None) IN
    IF message_type # "text" THEN [outcome |-> "ignore"]
    ELSE LET message_text == Strip(Get(Get(message, "text", EmptyDict), "body", <<>>)) IN
    IF from_number \in {None, ""} \/ message_text = <<>> THEN [outcome |-> "ignore"]
    ELSE [outcome |-> "proceed", from_number |-> from_number, message_text |-> message_text]

\* get_tenant_id_from_message(message_data)
get_tenant_id_from_message(message_data) ==
    IF config.ENVIRONMENT = "development" THEN config.TEST_TENANT_ID ELSE None

\* (mutation) the gate is left out
LimitReachedNever(message_count, message_limit) == FALSE

\* (mutation) a strict comparison at the gate
LimitReachedStrict(message_count, message_limit) == message_count > message_limit

\* message_count >= message_limit
LimitReached(message_count, message_limit) == message_count >= message_limit

\* (mutation) the increment is forgotten
NewCountUnchanged(message_count) == message_count

\* the count written after a delivery
NewCount(message_count) == message_count + 1

\* the fallback reply of BrowStudioBot.get_response
Apology(studio_info) == Append(ApologyPrefix, Get(studio_info, "business_phone", "nosso WhatsApp"))

\* what the hosted model answers
ModelReply == <<"Custa R$ 50.">>

----------------------------------------------------------------------------
(* Actions of POST /webhook (handle_webhook) *)

SetTask(r, t) == task' = [task EXCEPT ![r] = t]

\* No handler stands at its return statement.  Nothing is awaited between
\* a handler's last call and its return, so a handler that has reached the
\* return answers before any other task runs: every action but Respond is
\* taken with no task at "done".
Running == \A q \in Tasks : task[q].pc # "done"

Log(t, c) == [t EXCEPT !.calls = Append(@, c)]

\* A request arrives: request.json(), then validation, extraction and
\* filtering up to the first awaited service call.
Receive(r, b) ==
    /\ task[r].pc = "idle"
    /\ Running
    /\ started < MaxRequests
    /\ started' = started + 1
    /\ LET t == [IdleTask EXCEPT !.method = "POST", !.body = b]
           p == ParseExtractFilter(b)
       IN  SetTask(r, CASE p.outcome = "raise" -> OnException(t)
                        [] p.outcome = "ignore" -> Ack(t)
                        [] OTHER -> [t EXCEPT !.pc = "resolve",
                                              !.from_number = p.from_number,
                                              !.message_text = p.message_text])
    /\ UNCHANGED <<config, tenants, message_history>>

\* tenant_id = await get_tenant_id_from_message(value); the body is not
\* read after this point
ResolveTenant(r) ==
    /\ task[r].pc = "resolve"
    /\ Running
    /\ LET value == task[r].body.data.entry[1].changes[1].value
           tenant_id == get_tenant_id_from_message(value)
           t == Log([task[r] EXCEPT !.tenant_id = tenant_id, !.body = NoBody],
                    Call("get_tenant_id_from_message", <<>>, 0, tenant_id # None))
       IN  SetTask(r, [t EXCEPT !.pc = IF tenant_id = None THEN "send_unknown" ELSE "load"])
    /\ UNCHANGED <<config, tenants, message_history, started>>

\* no tenant: send the "could not identify" text, result ignored, answer 200
SendUnknown(r, ok) ==
    /\ task[r].pc = "send_unknown"
    /\ Running
    /\ SetTask(r, Ack(Log(task[r], Call("send_message", UnknownTenantText, 0, ok))))
    /\ UNCHANGED <<config, tenants, message_history, started>>

\* (mutation) a missing record is answered like an unknown tenant
TenantNotFoundReplying(t) == [t EXCEPT !.pc = "send_unknown"]

\* if not tenant_data: log the error and answer 200
TenantNotFound(t) == Ack(t)

\* the code that follows the tenant load: the not-found return and the
\* quota gate (a NULL count or limit makes the comparison raise TypeError)
AfterLoad(t, tenant_data) ==
    IF tenant_data = NoRow THEN TenantNotFound(t)
    ELSE IF {"message_count", "message_limit"} \cap tenant_data.null_columns # {}
         THEN OnException([t EXCEPT !.tenant_data = tenant_data])
    ELSE LET message_count == Get(tenant_data, "message_count", 0)
             message_limit == Get(tenant_data, "message_limit", 100)
             u == [t EXCEPT !.tenant_data = tenant_data,
                            !.message_count = message_count,
                            !.message_limit = message_limit]
         IN  [u EXCEPT !.pc = IF LimitReached(message_count, message_limit)
                              THEN "send_limit" ELSE "generate"]

\* DatabaseService.get_tenant_data(tenant_id): the row, or None when there
\* is no row or the query fails
get_tenant_data(tenant_id, ok) ==
    IF ok /\ tenant_id \in DOMAIN tenants THEN tenants[tenant_id] ELSE NoRow

LoadTenant(r, ok) ==
    /\ task[r].pc = "load"
    /\ Running
    /\ LET tenant_data == get_tenant_data(task[r].tenant_id, ok)
           t == Log(task[r], Call("get_tenant_data", <<>>, 0, tenant_data # NoRow))
       IN  SetTask(r, AfterLoad(t, tenant_data))
    /\ UNCHANGED <<config, tenants, message_history, started>>

\* limit reached: send the fixed text, result ignored, answer 200
SendLimit(r, ok) ==
    /\ task[r].pc = "send_limit"
    /\ Running
    /\ SetTask(r, Ack(Log(task[r], Call("send_message", LimitReachedText, 0, ok))))
    /\ UNCHANGED <<config, tenants, message_history, started>>

\* what client.chat.completions.create does: it raises (network failure,
\* non-2xx status; a response without choices raises at choices[0]), or it
\* answers a choice whose message content is null or a text
ModelOutcomes == {"raise", "null_content", "text"}

\* response.choices[0].message.content, where it is a text
Content(outcome) == IF outcome = "text" THEN ModelReply ELSE <<>>

\* BrowStudioBot.get_response(user_message): the content of the model's
\* first choice, returned as it is, or the apology when the try block raises
get_response(studio_info, outcome) ==
    IF outcome = "raise"
    THEN [is_none |-> FALSE, text |-> Apology(studio_info)]
    ELSE [is_none |-> outcome = "null_content", text |-> Content(outcome)]

\* reply_text = await bot.get_response(message_text)
Generate(r, outcome) ==
    /\ task[r].pc = "generate"
    /\ Running
    /\ LET reply == get_response(task[r].tenant_data, outcome)
           t == Log(task[r], Call("get_response", reply.text, 0, outcome # "raise"))
       IN  SetTask(r, [t EXCEPT !.reply_text = reply.text,
                                !.none_locals = IF reply.is_none THEN {"reply_text"} ELSE {},
                                !.pc = "send"])
    /\ UNCHANGED <<config, tenants, message_history, started>>

\* (mutation) the result of the send is not looked at
AfterDeliverIgnoringResult(t, success) == [t EXCEPT !.success = success, !.pc = "update"]

\* (mutation) the test of the send's result is inverted
AfterDeliverInverted(t, success) ==
    IF ~success THEN [t EXCEPT !.success = FALSE, !.pc = "update"]
    ELSE Ack([t EXCEPT !.success = TRUE])

\* (mutation) after a failed send the handler waits for a delivery receipt
AfterDeliverAwaitingReceipt(t, success) ==
    IF success THEN [t EXCEPT !.success = TRUE, !.pc = "update"]
    ELSE [t EXCEPT !.success = FALSE, !.pc = "await_receipt"]

\* (mutation) a failed send is tried again
AfterDeliverRetrying(t, success) ==
    IF success THEN [t EXCEPT !.success = TRUE, !.pc = "update"]
    ELSE [t EXCEPT !.success = FALSE, !.pc = "send"]

\* if success: account the delivery; otherwise fall through to the final 200
AfterDeliver(t, success) ==
    IF success THEN [t EXCEPT !.success = TRUE, !.pc = "update"]
    ELSE Ack([t EXCEPT !.success = FALSE])

\* success = await WhatsAppService.send_message(from_number, reply_text)
Deliver(r, ok) ==
    /\ task[r].pc = "send"
    /\ Running
    /\ SetTask(r, AfterDeliver(Log(task[r], Call("send_message", task[r].reply_text, 0, ok)), ok))
    /\ UNCHANGED <<config, tenants, message_history, started>>

\* (mutation) the update has no filter on the tenant id
update_message_count_unfiltered(tenant_id, new_count) ==
    [id \in DOMAIN tenants |->
        [tenants[id] EXCEPT !.message_count = new_count, !.last_message_at = utcnow]]

\* (mutation) an atomic increment of the stored count
update_message_count_atomic(tenant_id, new_count) ==
    [id \in DOMAIN tenants |->
        IF id = tenant_id
        THEN [tenants[id] EXCEPT !.message_count = @ + 1, !.last_message_at = utcnow]
        ELSE tenants[id]]

\* DatabaseService.update_message_count(tenant_id, new_count) on the table
update_message_count(tenant_id, new_count) ==
    [id \in DOMAIN tenants |->
        IF id = tenant_id
        THEN [tenants[id] EXCEPT !.message_count = new_count, !.last_message_at = utcnow]
        ELSE tenants[id]]

\* (mutation) a failed update raises out of the if block
AfterUpdateAborting(t, ok) == IF ok THEN [t EXCEPT !.pc = "history"] ELSE OnException(t)

\* the result of update_message_count is not looked at: the history
\* insert comes next
AfterUpdate(t, ok) == [t EXCEPT !.pc = "history"]

UpdateMessageCount(r, ok) ==
    /\ task[r].pc = "update"
    /\ Running
    /\ LET new_count == NewCount(task[r].message_count)
           t == Log(task[r], Call("update_message_count", <<>>, new_count, ok))
       IN  /\ SetTask(r, AfterUpdate(t, ok))
           /\ tenants' = IF ok THEN update_message_count(task[r].tenant_id, new_count)
                         ELSE tenants
    /\ UNCHANGED <<config, message_history, started>>

\* the row DatabaseService.save_message_history inserts
HistoryRow(tenant_id, phone_number, user_message, bot_response) ==
    [tenant_id |-> tenant_id, phone_number |-> phone_number,
     user_message |-> Truncate(user_message, MaxStoredLen),
     bot_response |-> Truncate(bot_response, MaxStoredLen),
     created_at |-> utcnow]

\* save_message_history returns True when the insert is executed: slicing
\* a bot_response that is None raises inside its try block
SaveMessageHistory(r, ok) ==
    /\ task[r].pc = "history"
    /\ Running
    /\ LET row == HistoryRow(task[r].tenant_id, task[r].from_number,
                             task[r].message_text, task[r].reply_text)
           inserted == ok /\ "reply_text" \notin task[r].none_locals
       IN  /\ SetTask(r, Ack(Log(task[r], Call("save_message_history", <<>>, 0, inserted))))
           /\ message_history' = IF inserted THEN Append(message_history, row)
                                 ELSE message_history
    /\ UNCHANGED <<config, tenants, started>>

\* (mutation) either condition suffices
VerifiedEither(mode, token) == mode = "subscribe" \/ token = config.VERIFY_TOKEN

\* mode == "subscribe" and token == Config.VERIFY_TOKEN
Verified(mode, token) == mode = "subscribe" /\ token = config.VERIFY_TOKEN

\* Response(content=challenge): an absent challenge renders as an empty body
Render(content) == IF content = None THEN "" ELSE content

\* GET /webhook (verify_webhook): echo the challenge, or HTTPException 403
VerifyWebhook(r, mode, token, challenge) ==
    /\ task[r].pc = "idle"
    /\ Running
    /\ LET t == [IdleTask EXCEPT !.pc = "done", !.method = "GET",
                                 !.query = Query(mode, token, challenge)]
       IN  SetTask(r, IF Verified(mode, token)
                      THEN [t EXCEPT !.status = 200, !.content = Render(challenge)]
                      ELSE [t EXCEPT !.status = 403, !.content = "Verificacao falhou"])
    /\ UNCHANGED <<config, tenants, message_history, started>>

\* the response has been returned to the platform: the task ends
Respond(r) ==
    /\ task[r].pc = "done"
    /\ SetTask(r, IdleTask)
    /\ UNCHANGED <<config, tenants, message_history, started>>

----------------------------------------------------------------------------
(* Specification *)

\* query parameters of the handshake requests
Modes == {"subscribe", "unsubscribe", None}
Tokens == {VerifyToken, "wrong", None}
Challenges == {"X", None}

Init ==
    /\ config \in Configs
    /\ tenants = InitialTenants
    /\ message_history = <<>>
    /\ task = [r \in Tasks |-> IdleTask]
    /\ started = 0

\* one step of a handler that has received its request: the return of
\* the call it awaits and the code up to the next awaited call
HandlerStep(r) ==
    \/ ResolveTenant(r)
    \/ \E ok \in BOOLEAN : SendUnknown(r, ok)
    \/ \E ok \in BOOLEAN : LoadTenant(r, ok)
    \/ \E ok \in BOOLEAN : SendLimit(r, ok)
    \/ \E outcome \in ModelOutcomes : Generate(r, outcome)
    \/ \E ok \in BOOLEAN : Deliver(r, ok)
    \/ \E ok \in BOOLEAN : UpdateMessageCount(r, ok)
    \/ \E ok \in BOOLEAN : SaveMessageHistory(r, ok)
    \/ Respond(r)

\* one step of a POST /webhook task
PipelineStep(r) ==
    \/ \E b \in Payloads : Receive(r, b)
    \/ HandlerStep(r)

\* one GET /webhook request, served and answered
HandshakeStep(r) ==
    \/ \E mode \in Modes, token \in Tokens, challenge \in Challenges :
          VerifyWebhook(r, mode, token, challenge)
    \/ Respond(r)

\* the event pipeline: POST /webhook requests served concurrently
Next == \E r \in Tasks : PipelineStep(r)

Spec == Init /\ [][Next]_vars

\* the handshake next to the event pipeline: one task serves POST /webhook
\* requests while another serves GET /webhook requests
NextHandshake == PipelineStep(1) \/ HandshakeStep(MaxTasks)

SpecHandshake == Init /\ [][NextHandshake]_vars

\* the event pipeline when every awaited call eventually returns or fails
\* and the event loop eventually resumes a handler whose call has returned
SpecFair == Spec /\ \A r \in Tasks : WF_vars(HandlerStep(r))

----------------------------------------------------------------------------
(* Vocabulary of the properties *)

\* the positions in a task's call record of the calls of one service
Ops(t, op) == {i \in 1..Len(t.calls) : t.calls[i].op = op}

NumCalls(t, op) == Cardinality(Ops(t, op))

\* the task takes a step
Stepped(r) == task'[r] # task[r]

\* the task's request wrote nothing to the data store
NoWrites(t) == NumCalls(t, "update_message_count") = 0 /\ NumCalls(t, "save_message_history") = 0

\* the task loaded a tenant record whose count has reached its limit
Limited(t) ==
    /\ t.tenant_data # NoRow
    /\ t.tenant_data.null_columns = {}
    /\ t.tenant_data.message_count >= t.tenant_data.message_limit

\* the send of the generated reply failed
DeliveryFailed(t) ==
    /\ NumCalls(t, "get_response") = 1
    /\ \E i \in Ops(t, "send_message") : ~t.calls[i].ok

----------------------------------------------------------------------------
(* C1 *)

\* C1: every execution of the POST /webhook handler ends by answering 200,
\* whatever the payload and whatever a downstream call does: a POST task
\* never holds another status, and holds 200 exactly when it has ended.
C1_AlwaysAnswers200 ==
    \A r \in Tasks :
        task[r].method = "POST" =>
            /\ task[r].status \in {0, 200}
            /\ task[r].pc = "done" <=> task[r].status = 200

\* an exception raised after the tenant load (NULL limit) was answered 200
C1_Witness ==
    \E r \in Tasks :
        /\ task[r].pc = "done" /\ task[r].status = 200
        /\ task[r].tenant_id = "t2"
        /\ NumCalls(task[r], "get_tenant_data") = 1
        /\ task[r].tenant_data # NoRow

----------------------------------------------------------------------------
(* C2 *)

C2_Inv ==
    \A r \in Tasks :
        Limited(task[r]) =>
            /\ task[r].pc \in {"send_limit", "done"}
            /\ NumCalls(task[r], "get_response") = 0
            /\ NoWrites(task[r])
            /\ \A i \in Ops(task[r], "send_message") : task[r].calls[i].arg = LimitReachedText
            /\ NumCalls(task[r], "send_message") = (IF task[r].pc = "done" THEN 1 ELSE 0)

C2_Frame ==
    \A r \in Tasks :
        Stepped(r) /\ (Limited(task[r]) \/ Limited(task'[r])) =>
            UNCHANGED <<tenants, message_history>>

\* C2: a request whose loaded tenant record has message_count >=
\* message_limit sends exactly one message, the limit-reached text, never
\* calls the Reply Generator, and no step of it changes a counter or the
\* history.
C2_LimitBlocked == []C2_Inv /\ [][C2_Frame]_vars

\* a request that loaded message_count = message_limit exactly has ended
C2_Witness ==
    \E r \in Tasks :
        /\ task[r].pc = "done" /\ Limited(task[r])
        /\ task[r].message_count = task[r].message_limit
        /\ NumCalls(task[r], "send_message") = 1

----------------------------------------------------------------------------
(* C3 *)

\* C3 as stated: after a request whose delivery succeeded, the stored
\* count is the count it loaded plus 1 and it appended exactly one row.
C3_Original ==
    \A r \in Tasks :
        task[r].pc = "done" /\ task[r].success =>
            /\ tenants[task[r].tenant_id].message_count = task[r].message_count + 1
            /\ Cardinality({i \in Ops(task[r], "save_message_history") : task[r].calls[i].ok}) = 1

C3_Inv ==
    \A r \in Tasks :
        task[r].success =>
            /\ task[r].pc \in {"update", "history", "done"}
            /\ NumCalls(task[r], "update_message_count") = (IF task[r].pc = "update" THEN 0 ELSE 1)
            /\ NumCalls(task[r], "save_message_history") = (IF task[r].pc = "done" THEN 1 ELSE 0)
            /\ \A i \in Ops(task[r], "update_message_count") :
                  task[r].calls[i].n = task[r].message_count + 1

C3_Writes ==
    \A r \in Tasks :
        /\ task[r].pc = "update" /\ task'[r].pc = "history" =>
              LET id == task[r].tenant_id
                  ok == task'[r].calls[Len(task'[r].calls)].ok
              IN  /\ message_history' = message_history
                  /\ \A o \in TenantIds \ {id} : tenants'[o] = tenants[o]
                  /\ ok => tenants'[id].message_count = task[r].message_count + 1
                  /\ ~ok => tenants'[id] = tenants[id]
        /\ task[r].pc = "history" /\ task'[r].pc = "done" =>
              LET ok == task'[r].calls[Len(task'[r].calls)].ok
              IN  /\ tenants' = tenants
                  /\ ok => /\ Len(message_history') = Len(message_history) + 1
                           /\ SubSeq(message_history', 1, Len(message_history)) = message_history
                           /\ message_history'[Len(message_history')].tenant_id = task[r].tenant_id
                  /\ ~ok => message_history' = message_history

\* C3 (amended): a request whose delivery succeeded attempts exactly one
\* counter update, writing the count it loaded plus 1, and then exactly one
\* history insert; a successful update leaves loaded + 1 stored, a
\* successful insert appends one row, a failed write changes nothing.
C3_Amended == []C3_Inv /\ [][C3_Writes]_vars

\* a delivered request has ended with both writes done
C3_Witness ==
    \E r \in Tasks :
        /\ task[r].pc = "done" /\ task[r].success
        /\ \A i \in Ops(task[r], "update_message_count") \cup Ops(task[r], "save_message_history") :
              task[r].calls[i].ok
        /\ tenants[task[r].tenant_id].message_count = task[r].message_count + 1
        /\ message_history # <<>>

----------------------------------------------------------------------------
(* C4 *)

C4_Inv ==
    \A r \in Tasks :
        DeliveryFailed(task[r]) =>
            /\ ~task[r].success
            /\ task[r].pc = "done"
            /\ NoWrites(task[r])

C4_Frame ==
    \A r \in Tasks :
        Stepped(r) /\ (DeliveryFailed(task[r]) \/ DeliveryFailed(task'[r])) =>
            UNCHANGED <<tenants, message_history>>

\* C4: a request whose send of the generated reply fails performs no
\* counter update and no history insert: message_count, last_message_at
\* and the history are left unchanged by every step of it.
C4_FailedDeliveryWritesNothing == []C4_Inv /\ [][C4_Frame]_vars

\* a request has ended after its send of the generated reply failed
C4_Witness ==
    \E r \in Tasks :
        /\ task[r].pc = "done" /\ DeliveryFailed(task[r])
        /\ task[r].reply_text = ModelReply

----------------------------------------------------------------------------
(* C5 *)

\* the task's body is a JSON object whose object tag is not the expected one
ForeignObject(t) ==
    /\ t.method = "POST" /\ t.body.decodes /\ t.body.is_object
    /\ Get(t.body.data, "object", None) # ExpectedObject

C5_Inv ==
    \A r \in Tasks :
        ForeignObject(task[r]) =>
            task[r].pc = "done" /\ task[r].status = 200 /\ task[r].calls = <<>>

C5_Frame ==
    \A r \in Tasks :
        Stepped(r) /\ (ForeignObject(task[r]) \/ ForeignObject(task'[r])) =>
            UNCHANGED <<tenants, message_history>>

\* C5: an event whose object tag is not "whatsapp_business_account" is
\* answered 200 and no downstream service is invoked for it.
C5_ForeignObjectIgnored == []C5_Inv /\ [][C5_Frame]_vars

\* a "page" event carrying a well-formed text message has been ignored
C5_Witness ==
    \E r \in Tasks :
        /\ task[r].pc = "done" /\ ForeignObject(task[r])
        /\ Get(task[r].body.data, "object", None) = "page"
        /\ task[r].body.data.entry[1].changes[1].value.messages # <<>>

----------------------------------------------------------------------------
(* C6 *)

\* tenant resolution yielded no tenant / the tenant load yielded no record
ResolutionMissed(t) == \E i \in Ops(t, "get_tenant_id_from_message") : ~t.calls[i].ok

LoadMissed(t) == \E i \in Ops(t, "get_tenant_data") : ~t.calls[i].ok

C6_Inv ==
    \A r \in Tasks :
        /\ ResolutionMissed(task[r]) =>
              /\ task[r].pc \in {"send_unknown", "done"}
              /\ \A i \in Ops(task[r], "send_message") : task[r].calls[i].arg = UnknownTenantText
              /\ NumCalls(task[r], "send_message") = (IF task[r].pc = "done" THEN 1 ELSE 0)
              /\ NumCalls(task[r], "get_tenant_data") = 0
              /\ NumCalls(task[r], "get_response") = 0
              /\ NoWrites(task[r])
              /\ task[r].pc = "done" => task[r].status = 200
        /\ LoadMissed(task[r]) =>
              /\ task[r].pc = "done" /\ task[r].status = 200
              /\ NumCalls(task[r], "send_message") = 0
              /\ NumCalls(task[r], "get_response") = 0
              /\ NoWrites(task[r])

C6_Frame ==
    \A r \in Tasks :
        /\ Stepped(r)
        /\ \/ ResolutionMissed(task[r]) \/ ResolutionMissed(task'[r])
           \/ LoadMissed(task[r]) \/ LoadMissed(task'[r])
        => UNCHANGED <<tenants, message_history>>

----------------------------------------------------------------------------
(* C7 *)

C7_Inv ==
    \A r \in Tasks :
        task[r].method = "GET" =>
            LET q == task[r].query IN
            /\ task[r].pc = "done"
            /\ IF q.mode = "subscribe" /\ q.verify_token = config.VERIFY_TOKEN
               THEN /\ task[r].status = 200
                    /\ task[r].content = (IF q.challenge = None THEN "" ELSE q.challenge)
               ELSE task[r].status = 403

C7_Frame ==
    \A r \in Tasks :
        task[r].pc = "idle" /\ task'[r].method = "GET" =>
            /\ UNCHANGED <<config, tenants, message_history, started>>
            /\ \A o \in Tasks \ {r} : task'[o] = task[o]

\* C7: the handshake answers 200 with the challenge as its body exactly
\* when mode is "subscribe" and the token is the configured secret, answers
\* 403 for every other mode and token, and changes no state.
C7_Handshake == []C7_Inv /\ [][C7_Frame]_vars

\* a handshake was accepted after the pipeline had written to the store
C7_Witness ==
    \E r \in Tasks :
        /\ task[r].method = "GET" /\ task[r].status = 200 /\ task[r].content = "X"
        /\ message_history # <<>>

----------------------------------------------------------------------------
(* C8, C9 *)

\* C8 as stated: no step lowers a tenant's stored message_count.
C8_Monotonic ==
    [][\A id \in TenantIds : tenants'[id].message_count >= tenants[id].message_count]_vars

\* C9 as stated: once the stored message_count has reached message_limit
\* it stays there, so that every later load is limit-blocked.
C9_RegimePersists ==
    [][\A id \in TenantIds :
          tenants[id].message_count >= tenants[id].message_limit =>
              tenants'[id].message_count >= tenants'[id].message_limit]_vars

----------------------------------------------------------------------------
(* C10 *)

\* C10: the counter update is not an increment of the stored count: a
\* successful update by a request whose loaded count is no longer the
\* stored one still stores the loaded count plus 1.
C10_StaleWrite ==
    [][\A r \in Tasks :
          /\ task[r].pc = "update" /\ task'[r].pc = "history"
          /\ task'[r].calls[Len(task'[r].calls)].ok
          /\ tenants[task[r].tenant_id].message_count # task[r].message_count
          => tenants'[task[r].tenant_id].message_count = task[r].message_count + 1]_vars

\* two requests loaded the same count, one short of the limit, both
\* delivered a generated reply and both updated the counter, which is only
\* 1 higher
C10_Witness ==
    \E r1, r2 \in Tasks :
        /\ r1 # r2
        /\ task[r1].pc = "done"
        /\ \A r \in {r1, r2} :
              /\ task[r].pc \in {"history", "done"} /\ task[r].success
              /\ task[r].tenant_id = "t1"
              /\ \A i \in Ops(task[r], "update_message_count") : task[r].calls[i].ok
        /\ task[r1].message_count = task[r2].message_count
        /\ task[r1].message_count + 1 = task[r1].message_limit
        /\ tenants["t1"].message_count = task[r1].message_count + 1

----------------------------------------------------------------------------
(* C11 *)

\* C11 as stated: whatever the model call does, the Reply Generator hands
\* the handler a text (never None), and when the model call raised that
\* text is the fixed apology ending with the tenant's contact phone.
C11_AlwaysText ==
    \A r \in Tasks :
        \A i \in Ops(task[r], "get_response") :
            /\ "reply_text" \notin task[r].none_locals
            /\ ~task[r].calls[i].ok =>
                  /\ task[r].reply_text = Apology(task[r].tenant_data)
                  /\ task[r].reply_text[Len(task[r].reply_text)] = task[r].tenant_data.business_phone

----------------------------------------------------------------------------
(* C12 *)

\* the routing key in the metadata of the event a task is handling
RoutingKey(t) ==
    Get(Get(t.body.data.entry[1].changes[1].value, "metadata", EmptyDict), "phone_number_id", None)

\* C12 as stated: tenant resolution of a message whose routing key has a
\* mapping yields the mapped tenant, and the handler goes on to load it (so
\* that messages with differently mapped keys load different records).
C12_RoutedByKey ==
    [][\A r \in Tasks :
          /\ task[r].pc = "resolve" /\ task'[r].pc # "resolve"
          /\ RoutingKey(task[r]) \in DOMAIN phone_mappings
          => /\ task'[r].tenant_id = phone_mappings[RoutingKey(task[r])]
             /\ task'[r].pc = "load"]_vars

----------------------------------------------------------------------------
(* C13, C14 *)

\* the task handles a POST whose body is a WhatsApp event
WhatsAppEvent(t) ==
    /\ t.method = "POST" /\ t.body.decodes /\ t.body.is_object
    /\ Get(t.body.data, "object", None) = ExpectedObject

\* the value of the event's first change ({} when entry or changes lack)
EventValue(t) ==
    LET entry == Get(t.body.data, "entry", <<>>)
        changes == IF entry = <<>> THEN <<>> ELSE Get(entry[1], "changes", <<>>)
    IN  IF changes = <<>> THEN EmptyDict ELSE Get(changes[1], "value", EmptyDict)

\* the messages list of the event (empty when it lacks)
Batch(t) == Get(EventValue(t), "messages", <<>>)

\* the request was accepted and ignored
Ignored(t) == t.pc = "done" /\ t.status = 200 /\ t.calls = <<>>

\* a message that passes the filter: a text with a sender and a body that
\* is not empty after trimming
WellFormed(message) ==
    /\ Get(message, "type", None) = "text"
    /\ Get(message, "from", None) \notin {None, ""}
    /\ Strip(Get(Get(message, "text", EmptyDict), "body", <<>>)) # <<>>

C13_Inv ==
    \A r \in Tasks :
        WhatsAppEvent(task[r]) =>
            /\ Batch(task[r]) = <<>> => Ignored(task[r])
            /\ "metadata" \notin DOMAIN EventValue(task[r]) /\ Batch(task[r]) # <<>>
               /\ WellFormed(Batch(task[r])[1])
               => task[r].pc = "resolve" /\ task[r].calls = <<>>

C13_Frame ==
    \A r \in Tasks :
        Stepped(r) /\ (\E t \in {task[r], task'[r]} : WhatsAppEvent(t) /\ Batch(t) = <<>>) =>
            UNCHANGED <<tenants, message_history>>

Filtered(t) == WhatsAppEvent(t) /\ Batch(t) # <<>> /\ ~WellFormed(Batch(t)[1])

C14_Inv ==
    /\ \A r \in Tasks :
          /\ Filtered(task[r]) => Ignored(task[r])
          /\ WhatsAppEvent(task[r]) /\ Batch(task[r]) # <<>> /\ task[r].pc = "resolve" =>
                LET first == Batch(task[r])[1] IN
                /\ WellFormed(first)
                /\ task[r].from_number = first.from
                /\ task[r].message_text = Strip(first.text.body)
          /\ \A i \in Ops(task[r], "send_message") \cup Ops(task[r], "get_response")
                       \cup Ops(task[r], "update_message_count")
                       \cup Ops(task[r], "save_message_history") :
                task[r].pc # "resolve"
    /\ \A i \in 1..Len(message_history) :
          /\ message_history[i].phone_number = Sender
          /\ message_history[i].user_message = Strip(UserText)

C14_Frame ==
    \A r \in Tasks :
        Stepped(r) /\ (Filtered(task[r]) \/ Filtered(task'[r])) =>
            UNCHANGED <<tenants, message_history>>

\* C14: only the first message of a batch is looked at.  When it is not a
\* text, or its body is empty after trimming, or its sender is empty, the
\* request is answered 200 with no service invoked and no store change;
\* otherwise the request carries the sender and the trimmed body of the
\* first message, and no history row ever records a later message.
C14_FirstMessageOnly == []C14_Inv /\ [][C14_Frame]_vars

\* a batch whose first message is an image and whose second is a
\* well-formed text has been ignored
C14_Witness ==
    \E r \in Tasks :
        /\ Filtered(task[r]) /\ Ignored(task[r])
        /\ Len(Batch(task[r])) = 2
        /\ WellFormed(Batch(task[r])[2])

----------------------------------------------------------------------------
(* C15 *)

\* a call of the service by the task's request failed
Failed(t, op) == \E i \in Ops(t, op) : ~t.calls[i].ok

C15_Inv ==
    \A r \in Tasks :
        /\ NumCalls(task[r], "get_response") <= 1
        /\ NumCalls(task[r], "send_message") <= 1

C15_Step ==
    \A r \in Tasks :
        Stepped(r) /\ task'[r].pc # "idle" =>
            /\ Failed(task[r], "get_response") \/ Failed(task[r], "send_message") =>
                  NumCalls(task'[r], "get_response") = NumCalls(task[r], "get_response")
            /\ Failed(task[r], "send_message") =>
                  NumCalls(task'[r], "send_message") = NumCalls(task[r], "send_message")

\* C15: one request calls the Reply Generator at most once and the
\* Dispatcher at most once; after a failed model call it never calls the
\* model again, and after a failed send it calls neither again.
C15_NoRetries == []C15_Inv /\ [][C15_Step]_vars

\* a request has ended after its model call failed and the send of the
\* apology failed too, with one call of each
C15_Witness ==
    \E r \in Tasks :
        /\ task[r].pc = "done"
        /\ Failed(task[r], "get_response") /\ Failed(task[r], "send_message")
        /\ NumCalls(task[r], "get_response") = 1
        /\ NumCalls(task[r], "send_message") = 1

----------------------------------------------------------------------------
(* C16 *)

\* the services a request has called, in call order
OpsInOrder(t) == [i \in 1..Len(t.calls) |-> t.calls[i].op]

\* the calls of a request that generates, delivers and records a reply
FullPath ==
    <<"get_tenant_id_from_message", "get_tenant_data", "get_response", "send_message",
      "update_message_count", "save_message_history">>

C16_Inv ==
    \A r \in Tasks :
        LET t == task[r] IN
        \A i \in 1..Len(t.calls) :
            /\ t.calls[i].op = "get_response" =>
                  /\ OpsInOrder(t) = SubSeq(FullPath, 1, Len(t.calls))
                  /\ t.calls[2].ok
                  /\ t.message_count < t.message_limit
            /\ t.calls[i].op = "send_message" /\ NumCalls(t, "get_response") = 1 =>
                  /\ t.calls[i - 1].op = "get_response"
                  /\ t.calls[i].arg = t.calls[i - 1].arg
            /\ t.calls[i].op = "update_message_count" =>
                  /\ t.calls[i - 1].op = "send_message"
                  /\ t.calls[i - 1].ok
            /\ t.calls[i].op = "save_message_history" =>
                  t.calls[i - 1].op = "update_message_count"

C16_Step ==
    \A r \in Tasks :
        Stepped(r) /\ (tenants' # tenants \/ message_history' # message_history) =>
            /\ task[r].success
            /\ \E i \in Ops(task[r], "send_message") :
                  task[r].calls[i].ok /\ task[r].calls[i].arg = task[r].reply_text

\* C16: within one request the model is called only after the tenant was
\* loaded and the quota gate passed, the generated reply is sent only after
\* the model call returned, the counter update follows only a send that
\* returned true, the history insert follows only the counter update, and
\* no step changes the counter or the history unless the stepping request
\* has already sent its reply successfully.
C16_StepOrder == []C16_Inv /\ [][C16_Step]_vars

\* a request has ended after all six calls, in order
C16_Witness ==
    \E r \in Tasks :
        /\ task[r].pc = "done"
        /\ OpsInOrder(task[r]) = FullPath
        /\ \A i \in 1..Len(task[r].calls) : task[r].calls[i].ok
        /\ message_history # <<>>

----------------------------------------------------------------------------
(* C17 *)

\* the result of the call the task has just made
LastOk(t) == t.calls[Len(t.calls)].ok

C17_Inv ==
    \A r \in Tasks :
        /\ Failed(task[r], "update_message_count") =>
              /\ task[r].pc \in {"history", "done"}
              /\ task[r].pc = "done" =>
                    task[r].status = 200 /\ NumCalls(task[r], "save_message_history") = 1
        /\ Failed(task[r], "save_message_history") =>
              task[r].pc = "done" /\ task[r].status = 200

C17_Step ==
    \A r \in Tasks :
        /\ task[r].pc = "update" /\ Stepped(r) /\ ~LastOk(task'[r]) =>
              /\ UNCHANGED <<tenants, message_history>>
              /\ task'[r].pc = "history"
        /\ task[r].pc = "history" /\ Stepped(r) /\ ~LastOk(task'[r]) =>
              /\ UNCHANGED <<tenants, message_history>>
              /\ task'[r].pc = "done" /\ task'[r].status = 200

\* C17: a failed persistence write is a false result, never an error: a
\* failed counter update leaves the store unchanged and is followed by the
\* history insert of the same request; a failed history insert leaves the
\* store (with the count already written) unchanged; the request answers
\* 200 in both cases.
C17_WriteFailuresAbsorbed == []C17_Inv /\ [][C17_Step]_vars

\* a request has ended whose counter update failed and whose history row
\* was inserted nevertheless
C17_Witness ==
    \E r \in Tasks :
        /\ task[r].pc = "done" /\ task[r].status = 200
        /\ Failed(task[r], "update_message_count")
        /\ ~Failed(task[r], "save_message_history")
        /\ NumCalls(task[r], "save_message_history") = 1
        /\ tenants[task[r].tenant_id].message_count = task[r].message_count
        /\ message_history # <<>>

----------------------------------------------------------------------------
(* C18 *)

\* the tenants whose record starts with a count at or below its limit
WithinLimitAtStart ==
    {id \in TenantIds :
        /\ InitialTenants[id].null_columns = {}
        /\ InitialTenants[id].message_count <= InitialTenants[id].message_limit}

\* C18: under every interleaving, the stored message_count of a tenant
\* that started at or below its message_limit never exceeds it, and every
\* count a request writes is the count it loaded, which was below the
\* limit it loaded, plus 1.
C18_CountWithinLimit ==
    /\ \A id \in WithinLimitAtStart :
          tenants[id].message_count <= tenants[id].message_limit
    /\ \A r \in Tasks :
          \A i \in Ops(task[r], "update_message_count") :
              /\ task[r].calls[i].n = task[r].message_count + 1
              /\ task[r].message_count < task[r].message_limit
              /\ task[r].calls[i].n <= tenants[task[r].tenant_id].message_limit

\* the stored count is at the limit while another request, which passed
\* the gate before, is still about to write
C18_Witness ==
    \E r \in Tasks :
        /\ task[r].pc \in {"send", "update"}
        /\ task[r].tenant_id \in WithinLimitAtStart
        /\ task[r].message_count < task[r].message_limit
        /\ tenants[task[r].tenant_id].message_count = tenants[task[r].tenant_id].message_limit

----------------------------------------------------------------------------
(* C19 *)

\* a record with its two writable columns blanked
Frozen(row) == [row EXCEPT !.message_count = 0, !.last_message_at = "never"]

\* C19: every step leaves the configuration, the set of tenant records
\* and, in every record, all columns but message_count and last_message_at
\* unchanged; only the record of the tenant resolved for the stepping
\* request changes, and only at its counter update; the history only grows,
\* by one row at a time, appended after the existing rows.
C19_WritesFramed ==
    [][/\ config' = config
       /\ DOMAIN tenants' = DOMAIN tenants
       /\ \A id \in DOMAIN tenants :
             /\ Frozen(tenants'[id]) = Frozen(tenants[id])
             /\ tenants'[id] # tenants[id] =>
                   \E r \in Tasks :
                       /\ Stepped(r) /\ task[r].pc = "update"
                       /\ task[r].tenant_id = id
       /\ Len(message_history') \in {Len(message_history), Len(message_history) + 1}
       /\ SubSeq(message_history', 1, Len(message_history)) = message_history
       /\ message_history' # message_history =>
             \E r \in Tasks :
                 /\ Stepped(r) /\ task[r].pc = "history"
                 /\ message_history'[Len(message_history')].tenant_id = task[r].tenant_id]_vars

\* two requests of one tenant have been recorded: its count and timestamp
\* are written, two rows are appended, the other records are as at start
C19_Witness ==
    /\ Len(message_history) = 2
    /\ \E id \in TenantIds :
          /\ tenants[id].message_count # InitialTenants[id].message_count
          /\ tenants[id].last_message_at = utcnow
          /\ \A o \in TenantIds \ {id} : tenants[o] = InitialTenants[o]
          /\ \A i \in 1..2 : message_history[i].tenant_id = id

----------------------------------------------------------------------------
(* C20 *)

\* the task is handling a request and has not reached its return
InFlight(t) == t.pc \notin {"idle", "done"}

\* no handler waits on another: whatever the other tasks are doing, a
\* handler in flight can take its next step (only a handler standing at
\* its return goes first)
C20_NeverBlocked ==
    \A r \in Tasks : InFlight(task[r]) /\ Running => ENABLED HandlerStep(r)

\* C20: every received request eventually reaches its return and answers
\* 200, and the response is then returned, when every awaited call
\* eventually returns or fails; no handler in flight is ever blocked by
\* another request.
C20_Terminates ==
    /\ []C20_NeverBlocked
    /\ \A r \in Tasks :
          /\ InFlight(task[r]) ~> (task[r].pc = "done" /\ task[r].status = 200)
          /\ (task[r].pc = "done") ~> (task[r].pc = "idle")

\* a request has reached its return after all six calls while another
\* request of the same tenant, past the quota gate, is still in flight
C20_Witness ==
    \E r1, r2 \in Tasks :
        /\ r1 # r2
        /\ task[r1].pc = "done" /\ task[r1].status = 200 /\ Len(task[r1].calls) = 6
        /\ task[r2].pc = "send"
        /\ task[r1].tenant_id = task[r2].tenant_id

====
